---- MODULE Spec2Model ----
(***************************************************************************)
(* Param, ParamsDict, DagParam and process_params of                       *)
(* airflow/sdk/definitions/param.py as a state machine.                    *)
(*                                                                         *)
(* Param objects live in a heap (a sequence; an object's identity is its   *)
(* index), because ParamsDict stores references: update() and __setitem__  *)
(* adopt Param objects, so two dictionaries, or two keys of one            *)
(* dictionary, can hold the same object.                                   *)
(*                                                                         *)
(* JSON values are written as their JSON text.                             *)
(***************************************************************************)
EXTENDS Integers, Sequences, FiniteSets, TLC

\* ------------------------------------------------------------------ bounds
\* Number of Param objects the heap can hold.
MaxParams == 2

\* ------------------------------------------------------------ value domain
\* airflow.utils.types.NOTSET, the "no value" sentinel.
NOTSET == "NOTSET"
\* Python None, JSON null.
None == "null"
\* A Python object json.dumps() rejects.
NonSerializable == "<object>"
\* The JSON values offered to the operations.
JsonValues == {"1", "x", None}
\* Every value a caller can pass where a plain value is expected.
PlainValues == JsonValues \cup {NonSerializable}
\* Keys of the dictionaries.
Keys == {"a", "b"}
\* The schemas: {} accepts everything, {"type": "integer"} accepts integers.
Schemas == {"{}", "integer"}
\* The descriptions: None or a text.
Descriptions == {None, "d"}

\* Param.__version__ and ParamsDict.__version__
Param_version == 1
ParamsDict_version == 1
\* The versions offered to deserialize().
Versions == {1, 2}

\* ---------------------------------------------------------------- exceptions
\* An exception is its class and its message, the message as a sequence of
\* parts so that "the message contains the key" is membership.
NoExc == [type |-> "", msg |-> <<>>]
ParamValidationError(msg) == [type |-> "ParamValidationError", msg |-> msg]
TypeError(msg) == [type |-> "TypeError", msg |-> msg]
AirflowException(msg) == [type |-> "AirflowException", msg |-> msg]

MsgNotJson == "All provided parameters must be json-serializable"
MsgNoValue == "No value passed and Param has no default value"
MsgSchema == "jsonschema.ValidationError"
MsgInvalidInput == "Invalid input for param"
MsgVersion == "serialized version > class version"
MsgNoResolve == "No value could be resolved for parameter"

MsgContains(exc, part) == \E i \in 1..Len(exc.msg) : exc.msg[i] = part

\* ------------------------------------------------------------------- Param
\* jsonschema.validate(value, schema): TRUE when the value is accepted.
JsonSchemaValidate(value, schema) ==
    \/ schema = "{}"
    \/ schema = "integer" /\ value \in {"1", "2", "3"}

\* Param._check_json with the check left out.
Param_check_json_accepts_all(value) == TRUE

\* Param._check_json: TRUE when json.dumps(value) succeeds.
Param_check_json(value) == value # NonSerializable

\* Param.__init__(default, description, schema=schema)
Param_init(default, description, schema) ==
    IF default # NOTSET /\ ~Param_check_json(default)
    THEN [raised |-> TRUE, exc |-> ParamValidationError(<<MsgNotJson>>),
          param |-> [value |-> NOTSET, description |-> None, schema |-> "{}"]]
    ELSE [raised |-> FALSE, exc |-> NoExc,
          param |-> [value |-> default, description |-> description, schema |-> schema]]

\* Param.resolve with self.value assigned before jsonschema.validate is called.
Param_resolve_assign_first(self, value, suppress_exception) ==
    IF value # NOTSET /\ ~Param_check_json(value)
    THEN [raised |-> TRUE, exc |-> ParamValidationError(<<MsgNotJson>>),
          val |-> None, self |-> self]
    ELSE LET final_val == IF value = NOTSET THEN self.value ELSE value
             stored == [self EXCEPT !.value = final_val] IN
         IF final_val = NOTSET
         THEN IF suppress_exception
              THEN [raised |-> FALSE, exc |-> NoExc, val |-> None, self |-> self]
              ELSE [raised |-> TRUE, exc |-> ParamValidationError(<<MsgNoValue>>),
                    val |-> None, self |-> self]
         ELSE IF ~JsonSchemaValidate(final_val, self.schema)
              THEN IF suppress_exception
                   THEN [raised |-> FALSE, exc |-> NoExc, val |-> None, self |-> stored]
                   ELSE [raised |-> TRUE, exc |-> ParamValidationError(<<MsgSchema>>),
                         val |-> None, self |-> stored]
              ELSE [raised |-> FALSE, exc |-> NoExc, val |-> final_val, self |-> stored]

\* Param.resolve without the assignment self.value = final_val.
Param_resolve_no_store(self, value, suppress_exception) ==
    IF value # NOTSET /\ ~Param_check_json(value)
    THEN [raised |-> TRUE, exc |-> ParamValidationError(<<MsgNotJson>>),
          val |-> None, self |-> self]
    ELSE LET final_val == IF value = NOTSET THEN self.value ELSE value IN
         IF final_val = NOTSET \/ ~JsonSchemaValidate(final_val, self.schema)
         THEN IF suppress_exception
              THEN [raised |-> FALSE, exc |-> NoExc, val |-> None, self |-> self]
              ELSE [raised |-> TRUE,
                    exc |-> ParamValidationError(
                                <<IF final_val = NOTSET THEN MsgNoValue ELSE MsgSchema>>),
                    val |-> None, self |-> self]
         ELSE [raised |-> FALSE, exc |-> NoExc, val |-> final_val, self |-> self]

\* Param.resolve that validates a candidate only: the stored value is
\* returned as it is.
Param_resolve_cached(self, value, suppress_exception) ==
    IF value # NOTSET /\ ~Param_check_json(value)
    THEN [raised |-> TRUE, exc |-> ParamValidationError(<<MsgNotJson>>),
          val |-> None, self |-> self]
    ELSE LET final_val == IF value = NOTSET THEN self.value ELSE value IN
         IF final_val = NOTSET
         THEN IF suppress_exception
              THEN [raised |-> FALSE, exc |-> NoExc, val |-> None, self |-> self]
              ELSE [raised |-> TRUE, exc |-> ParamValidationError(<<MsgNoValue>>),
                    val |-> None, self |-> self]
         ELSE IF value # NOTSET /\ ~JsonSchemaValidate(final_val, self.schema)
              THEN IF suppress_exception
                   THEN [raised |-> FALSE, exc |-> NoExc, val |-> None, self |-> self]
                   ELSE [raised |-> TRUE, exc |-> ParamValidationError(<<MsgSchema>>),
                         val |-> None, self |-> self]
              ELSE [raised |-> FALSE, exc |-> NoExc, val |-> final_val,
                    self |-> [self EXCEPT !.value = final_val]]

\* Param.resolve(value, suppress_exception) on the object `self`: the outcome
\* (exception or return value) and the object afterwards.
Param_resolve(self, value, suppress_exception) ==
    IF value # NOTSET /\ ~Param_check_json(value)
    THEN [raised |-> TRUE, exc |-> ParamValidationError(<<MsgNotJson>>),
          val |-> None, self |-> self]
    ELSE LET final_val == IF value = NOTSET THEN self.value ELSE value IN
         IF final_val = NOTSET
         THEN IF suppress_exception
              THEN [raised |-> FALSE, exc |-> NoExc, val |-> None, self |-> self]
              ELSE [raised |-> TRUE, exc |-> ParamValidationError(<<MsgNoValue>>),
                    val |-> None, self |-> self]
         ELSE IF ~JsonSchemaValidate(final_val, self.schema)
              THEN IF suppress_exception
                   THEN [raised |-> FALSE, exc |-> NoExc, val |-> None, self |-> self]
                   ELSE [raised |-> TRUE, exc |-> ParamValidationError(<<MsgSchema>>),
                         val |-> None, self |-> self]
              ELSE [raised |-> FALSE, exc |-> NoExc, val |-> final_val,
                    self |-> [self EXCEPT !.value = final_val]]

\* Param.serialize()
Param_serialize(self) ==
    [value |-> self.value, description |-> self.description, schema |-> self.schema]

\* Param.deserialize(data, version)
Param_deserialize(data, version) ==
    IF version > Param_version
    THEN [raised |-> TRUE, exc |-> TypeError(<<MsgVersion>>),
          param |-> [value |-> NOTSET, description |-> None, schema |-> "{}"]]
    ELSE Param_init(data.value, data.description, data.schema)

\* ------------------------------------------------------------- Python values
\* A value handed to ParamsDict: a plain value or a reference to a Param object.
Plain(v) == [isParam |-> FALSE, ref |-> 0, v |-> v]
Ref(p) == [isParam |-> TRUE, ref |-> p, v |-> ""]

\* An insertion-ordered dict is a sequence of entries [k, v] without repeated keys.
DictKeys(d) == {d[i].k : i \in 1..Len(d)}
DictHas(d, k) == \E i \in 1..Len(d) : d[i].k = k
DictGet(d, k) == d[CHOOSE i \in 1..Len(d) : d[i].k = k].v
\* d[k] = v: an existing key keeps its place, a new key goes last.
DictSet(d, k, v) ==
    IF DictHas(d, k)
    THEN [i \in 1..Len(d) |-> IF d[i].k = k THEN [k |-> k, v |-> v] ELSE d[i]]
    ELSE Append(d, [k |-> k, v |-> v])

\* -------------------------------------------------------------- ParamsDict
\* A ParamsDict is [d, suppress_exception]; d maps a key to a heap index.
Fail(exc, self, h) == [raised |-> TRUE, exc |-> exc, self |-> self, heap |-> h]
Done(self, h) == [raised |-> FALSE, exc |-> NoExc, self |-> self, heap |-> h]

\* ParamsDict.__init__(dict_obj, suppress_exception), dict_obj a dict of Python values.
RECURSIVE ParamsDict_init_loop(_, _, _, _)
ParamsDict_init_loop(self, h, dict_obj, i) ==
    IF i > Len(dict_obj) THEN Done(self, h)
    ELSE LET e == dict_obj[i] IN
         IF e.v.isParam
         THEN ParamsDict_init_loop([self EXCEPT !.d = Append(@, [k |-> e.k, v |-> e.v.ref])],
                                   h, dict_obj, i + 1)
         ELSE LET n == Param_init(e.v.v, None, "{}") IN
              IF n.raised THEN Fail(n.exc, self, h)
              ELSE ParamsDict_init_loop(
                       [self EXCEPT !.d = Append(@, [k |-> e.k, v |-> Len(h) + 1])],
                       Append(h, n.param), dict_obj, i + 1)

ParamsDict_init(h, dict_obj, suppress_exception) ==
    ParamsDict_init_loop([d |-> <<>>, suppress_exception |-> suppress_exception],
                         h, dict_obj, 1)

\* ParamsDict.__setitem__(key, value)
ParamsDict_setitem(self, h, key, value) ==
    IF value.isParam
    THEN Done([self EXCEPT !.d = DictSet(@, key, value.ref)], h)
    ELSE IF DictHas(self.d, key)
    THEN LET param == DictGet(self.d, key)
             r == Param_resolve(h[param], value.v, self.suppress_exception)
         IN IF r.raised
            THEN Fail(ParamValidationError(<<MsgInvalidInput, key>> \o r.exc.msg), self,
                      [h EXCEPT ![param] = r.self])
            ELSE Done([self EXCEPT !.d = DictSet(@, key, param)],
                      [h EXCEPT ![param] = r.self])
    ELSE LET n == Param_init(value.v, None, "{}") IN
         IF n.raised THEN Fail(n.exc, self, h)
         ELSE Done([self EXCEPT !.d = DictSet(@, key, Len(h) + 1)], Append(h, n.param))

\* ParamsDict.__getitem__(key); the key is present.
ParamsDict_getitem(self, h, key) ==
    LET param == DictGet(self.d, key)
        r == Param_resolve(h[param], NOTSET, self.suppress_exception)
    IN [raised |-> r.raised, exc |-> r.exc, val |-> r.val,
        heap |-> [h EXCEPT ![param] = r.self]]

\* MutableMapping.update(items): self[key] = value for every item, in order;
\* an exception leaves the items already set in place.
RECURSIVE MutableMapping_update(_, _, _, _)
MutableMapping_update(self, h, items, i) ==
    IF i > Len(items) THEN Done(self, h)
    ELSE LET r == ParamsDict_setitem(self, h, items[i].k, items[i].v) IN
         IF r.raised THEN r ELSE MutableMapping_update(r.self, r.heap, items, i + 1)

\* ParamsDict.update(other), other a ParamsDict: its Param objects are handed
\* to __setitem__ as they are.
ParamsDict_update(self, h, other) ==
    MutableMapping_update(self, h,
        [i \in 1..Len(other.d) |-> [k |-> other.d[i].k, v |-> Ref(other.d[i].v)]], 1)

\* ParamsDict.update(mapping), mapping a dict of plain values.
ParamsDict_update_mapping(self, h, mapping) ==
    MutableMapping_update(self, h,
        [i \in 1..Len(mapping) |-> [k |-> mapping[i].k, v |-> Plain(mapping[i].v)]], 1)

\* ParamsDict.dump(): every Param resolved with suppress_exception=True.
RECURSIVE ParamsDict_dump_loop(_, _, _, _)
ParamsDict_dump_loop(self, h, i, out) ==
    IF i > Len(self.d) THEN [val |-> out, heap |-> h]
    ELSE LET e == self.d[i]
             r == Param_resolve(h[e.v], NOTSET, TRUE)
         IN ParamsDict_dump_loop(self, [h EXCEPT ![e.v] = r.self], i + 1,
                                 Append(out, [k |-> e.k, v |-> r.val]))

ParamsDict_dump(self, h) == ParamsDict_dump_loop(self, h, 1, <<>>)

\* ParamsDict.validate()
RECURSIVE ParamsDict_validate_loop(_, _, _, _)
ParamsDict_validate_loop(self, h, i, resolved_dict) ==
    IF i > Len(self.d)
    THEN [raised |-> FALSE, exc |-> NoExc, val |-> resolved_dict, heap |-> h]
    ELSE LET e == self.d[i]
             r == Param_resolve(h[e.v], NOTSET, self.suppress_exception)
         IN IF r.raised
            THEN [raised |-> TRUE,
                  exc |-> ParamValidationError(<<MsgInvalidInput, e.k>> \o r.exc.msg),
                  val |-> <<>>, heap |-> [h EXCEPT ![e.v] = r.self]]
            ELSE ParamsDict_validate_loop(self, [h EXCEPT ![e.v] = r.self], i + 1,
                                          Append(resolved_dict, [k |-> e.k, v |-> r.val]))

\* ParamsDict.validate() naming the last key of the dict in its exception.
ParamsDict_validate_last_key(self, h) ==
    LET r == ParamsDict_validate_loop(self, h, 1, <<>>) IN
    IF r.raised
    THEN [r EXCEPT !.exc = ParamValidationError(
                 <<MsgInvalidInput, self.d[Len(self.d)].k>> \o SubSeq(r.exc.msg, 3, Len(r.exc.msg)))]
    ELSE r

ParamsDict_validate(self, h) == ParamsDict_validate_loop(self, h, 1, <<>>)

\* ParamsDict.serialize()
ParamsDict_serialize(self, h) == ParamsDict_dump(self, h)

\* ParamsDict.deserialize(data, version), data a dict of plain values.
ParamsDict_deserialize(h, data, version) ==
    IF version > ParamsDict_version
    THEN Fail(TypeError(<<MsgVersion>>), [d |-> <<>>, suppress_exception |-> FALSE], h)
    ELSE ParamsDict_init(h, [i \in 1..Len(data) |-> [k |-> data[i].k, v |-> Plain(data[i].v)]],
                         FALSE)

\* ---------------------------------------------------------------- DagParam
\* DagParam.__init__(current_dag, name, default) on current_dag.params.
DagParam_init(dag_params, h, name, default) ==
    IF default # NOTSET
    THEN ParamsDict_setitem(dag_params, h, name, Plain(default))
    ELSE Done(dag_params, h)

\* DagParam.resolve with context["params"] looked up before the default.
DagParam_resolve_params_first(self, context) ==
    LET conf == context.conf IN
    IF context.has_dag_run /\ ~conf.isNone /\ conf.d # <<>> /\ DictHas(conf.d, self.name)
    THEN [raised |-> FALSE, exc |-> NoExc, val |-> DictGet(conf.d, self.name)]
    ELSE IF DictHas(context.params, self.name)
    THEN [raised |-> FALSE, exc |-> NoExc, val |-> DictGet(context.params, self.name)]
    ELSE IF self.default # NOTSET
    THEN [raised |-> FALSE, exc |-> NoExc, val |-> self.default]
    ELSE [raised |-> TRUE, exc |-> AirflowException(<<MsgNoResolve, self.name>>),
          val |-> None]

\* DagParam.resolve(context).  context["dag_run"] may be missing (KeyError),
\* its conf may be None or a dict; context["params"] is a dict.
DagParam_resolve(self, context) ==
    LET conf == context.conf IN
    IF context.has_dag_run /\ ~conf.isNone /\ conf.d # <<>> /\ DictHas(conf.d, self.name)
    THEN [raised |-> FALSE, exc |-> NoExc, val |-> DictGet(conf.d, self.name)]
    ELSE IF self.default # NOTSET
    THEN [raised |-> FALSE, exc |-> NoExc, val |-> self.default]
    ELSE IF DictHas(context.params, self.name)
    THEN [raised |-> FALSE, exc |-> NoExc, val |-> DictGet(context.params, self.name)]
    ELSE [raised |-> TRUE, exc |-> AirflowException(<<MsgNoResolve, self.name>>),
          val |-> None]

\* ---------------------------------------------------------- process_params
\* process_params(dag, task, dagrun_conf, suppress_exception=...);
\* overrides is conf.getboolean("core", "dag_run_conf_overrides_params").
process_params(dag_params, task_params, h, dagrun_conf, overrides, suppress_exception) ==
    LET conf == IF dagrun_conf.isNone THEN <<>> ELSE dagrun_conf.d
        params == [d |-> <<>>, suppress_exception |-> suppress_exception]
        r1 == ParamsDict_update(params, h, dag_params)
        r2 == IF task_params.d # <<>> THEN ParamsDict_update(r1.self, r1.heap, task_params)
              ELSE r1
        r3 == IF overrides /\ conf # <<>>
              THEN ParamsDict_update_mapping(r2.self, r2.heap, conf)
              ELSE r2
    IN IF r3.raised
       THEN [raised |-> TRUE, exc |-> r3.exc, val |-> <<>>, heap |-> r3.heap]
       ELSE ParamsDict_validate(r3.self, r3.heap)

\* ------------------------------------------------------------------ inputs
\* The dicts with keys among Keys and values among V, in every insertion order.
Mappings(V) ==
    {<<>>}
    \cup {<<[k |-> k, v |-> v]>> : k \in Keys, v \in V}
    \cup {<<[k |-> k1, v |-> v1], [k |-> k2, v |-> v2]>> :
             <<k1, k2>> \in {kk \in Keys \X Keys : kk[1] # kk[2]}, <<v1, v2>> \in V \X V}

\* The dicts of at most one item.
SmallMappings(V) == {m \in Mappings(V) : Len(m) <= 1}

\* A DagRun.conf: None or a dict of JSON values.
NoneConf == [isNone |-> TRUE, d |-> <<>>]
Confs(M) == {NoneConf} \cup {[isNone |-> FALSE, d |-> m] : m \in M}

\* The contexts DagParam.resolve is given.
Contexts ==
    [has_dag_run : BOOLEAN, conf : Confs(SmallMappings(JsonValues)),
     params : SmallMappings(JsonValues)]

\* What a Param is declared with besides its default.
ParamDecls ==
    {[description |-> None, schema |-> "{}"], [description |-> "d", schema |-> "integer"]}

\* The owners of a ParamsDict: dag.params and task.params.
Owners == {"dag", "task"}

\* ------------------------------------------------------------------- state
VARIABLES
    heap,       \* the Param objects: heap[p] = [value, description, schema]
    params,     \* params[o], o in Owners: the ParamsDict of the dag and of the task
    dag_param,  \* the DagParam constructed last: [name, default]
    ret         \* the outcome of the last call

vars == <<heap, params, dag_param, ret>>

NoDagParam == [name |-> "", default |-> NOTSET]

\* The outcome of a call: the exception raised, or the value returned (val),
\* the dict returned (map) or the Param objects of the ParamsDict returned
\* (entries).
Outcome(op, raised, exc, val, map, entries) ==
    [op |-> op, raised |-> raised, exc |-> exc, val |-> val, map |-> map,
     entries |-> entries]

Init ==
    /\ heap = <<>>
    /\ params = [o \in Owners |-> [d |-> <<>>, suppress_exception |-> FALSE]]
    /\ dag_param = NoDagParam
    /\ ret = Outcome("init", FALSE, NoExc, None, <<>>, <<>>)

\* Objects of the heap.
Objects == 1..Len(heap)

\* The ParamsDicts of at most one item holding Param objects of the heap.
OtherParamsDicts ==
    {[d |-> m, suppress_exception |-> FALSE] : m \in SmallMappings(Objects)}

\* p = Param(default, description, schema=schema)
ParamConstruct(default, description, schema) ==
    /\ Len(heap) < MaxParams
    /\ LET r == Param_init(default, description, schema) IN
       /\ heap' = IF r.raised THEN heap ELSE Append(heap, r.param)
       /\ ret' = Outcome("Param", r.raised, r.exc, None, <<>>, <<>>)
    /\ UNCHANGED <<params, dag_param>>

\* heap[p].resolve(value, suppress_exception)
ParamResolve(p, value, suppress_exception) ==
    /\ LET r == Param_resolve(heap[p], value, suppress_exception) IN
       /\ heap' = [heap EXCEPT ![p] = r.self]
       /\ ret' = Outcome("resolve", r.raised, r.exc, r.val, <<>>, <<>>)
    /\ UNCHANGED <<params, dag_param>>

\* Param.deserialize(heap[p].serialize(), version)
ParamRoundTrip(p, version) ==
    /\ Len(heap) < MaxParams
    /\ LET r == Param_deserialize(Param_serialize(heap[p]), version) IN
       /\ heap' = IF r.raised THEN heap ELSE Append(heap, r.param)
       /\ ret' = Outcome("Param.deserialize", r.raised, r.exc, None, <<>>, <<>>)
    /\ UNCHANGED <<params, dag_param>>

\* params[o] = ParamsDict(dict_obj, suppress_exception), dict_obj of plain values
ParamsDictConstruct(o, dict_obj, suppress_exception) ==
    /\ LET r == ParamsDict_init(heap,
                    [i \in 1..Len(dict_obj) |-> [k |-> dict_obj[i].k, v |-> Plain(dict_obj[i].v)]],
                    suppress_exception) IN
       /\ Len(r.heap) <= MaxParams
       /\ heap' = IF r.raised THEN heap ELSE r.heap
       /\ params' = IF r.raised THEN params ELSE [params EXCEPT ![o] = r.self]
       /\ ret' = Outcome("ParamsDict", r.raised, r.exc, None, <<>>, <<>>)
    /\ UNCHANGED dag_param

\* params[o][key] = value
SetItem(o, key, value) ==
    /\ LET r == ParamsDict_setitem(params[o], heap, key, value) IN
       /\ Len(r.heap) <= MaxParams
       /\ heap' = r.heap
       /\ params' = [params EXCEPT ![o] = r.self]
       /\ ret' = Outcome("setitem", r.raised, r.exc, None, <<>>, <<>>)
    /\ UNCHANGED dag_param

\* params[o][key]
GetItem(o, key) ==
    /\ DictHas(params[o].d, key)
    /\ LET r == ParamsDict_getitem(params[o], heap, key) IN
       /\ heap' = r.heap
       /\ ret' = Outcome("getitem", r.raised, r.exc, r.val, <<>>, <<>>)
    /\ UNCHANGED <<params, dag_param>>

\* params[o].update(other), other a ParamsDict
Update(o, other) ==
    /\ LET r == ParamsDict_update(params[o], heap, other) IN
       /\ heap' = r.heap
       /\ params' = [params EXCEPT ![o] = r.self]
       /\ ret' = Outcome("update", r.raised, r.exc, None, <<>>, <<>>)
    /\ UNCHANGED dag_param

\* params[o].update(mapping), mapping a dict of plain values
UpdateMapping(o, mapping) ==
    /\ LET r == ParamsDict_update_mapping(params[o], heap, mapping) IN
       /\ Len(r.heap) <= MaxParams
       /\ heap' = r.heap
       /\ params' = [params EXCEPT ![o] = r.self]
       /\ ret' = Outcome("update", r.raised, r.exc, None, <<>>, <<>>)
    /\ UNCHANGED dag_param

\* params[o].validate()
Validate(o) ==
    /\ LET r == ParamsDict_validate(params[o], heap) IN
       /\ heap' = r.heap
       /\ ret' = Outcome("validate", r.raised, r.exc, None, r.val, <<>>)
    /\ UNCHANGED <<params, dag_param>>

\* The Param objects of a ParamsDict in the order of its keys: what
\* get_param(key) shows for each key.
Entries(self, h) ==
    [i \in 1..Len(self.d) |-> [k |-> self.d[i].k, v |-> h[self.d[i].v]]]

\* ParamsDict.deserialize(params[o].serialize(), version); the fresh ParamsDict
\* is returned, not kept.
RoundTrip(o, version) ==
    /\ LET s == ParamsDict_serialize(params[o], heap)
           r == ParamsDict_deserialize(s.heap, s.val, version) IN
       /\ heap' = s.heap
       /\ ret' = Outcome("ParamsDict.deserialize", r.raised, r.exc, None, <<>>,
                         IF r.raised THEN <<>> ELSE Entries(r.self, r.heap))
    /\ UNCHANGED <<params, dag_param>>

\* dag_param = DagParam(dag, name, default)
DagParamConstruct(name, default) ==
    /\ LET r == DagParam_init(params["dag"], heap, name, default) IN
       /\ Len(r.heap) <= MaxParams
       /\ heap' = r.heap
       /\ params' = [params EXCEPT !["dag"] = r.self]
       /\ dag_param' = IF r.raised THEN dag_param ELSE [name |-> name, default |-> default]
       /\ ret' = Outcome("DagParam", r.raised, r.exc, None, <<>>, <<>>)

\* dag_param.resolve(context)
DagParamResolve(context) ==
    /\ dag_param # NoDagParam
    /\ LET r == DagParam_resolve(dag_param, context) IN
       ret' = Outcome("DagParam.resolve", r.raised, r.exc, r.val, <<>>, <<>>)
    /\ UNCHANGED <<heap, params, dag_param>>

\* process_params(dag, task, dagrun_conf, suppress_exception=suppress_exception).
\* The ParamsDict it builds, and the Param objects it creates for new keys,
\* are dropped when it returns; the Param objects of dag and task stay.
ProcessParams(dagrun_conf, overrides, suppress_exception) ==
    /\ LET r == process_params(params["dag"], params["task"], heap, dagrun_conf,
                               overrides, suppress_exception) IN
       /\ heap' = SubSeq(r.heap, 1, Len(heap))
       /\ ret' = Outcome("process_params", r.raised, r.exc, None, r.val, <<>>)
    /\ UNCHANGED <<params, dag_param>>

\* ------------------------------------------------------------ specifications
\* Param objects on their own.
ParamNext ==
    \/ \E v \in PlainValues \cup {NOTSET}, c \in ParamDecls :
          ParamConstruct(v, c.description, c.schema)
    \/ \E p \in Objects, v \in PlainValues \cup {NOTSET}, b \in BOOLEAN :
          ParamResolve(p, v, b)
    \/ \E p \in Objects, n \in Versions : ParamRoundTrip(p, n)

SpecParam == Init /\ [][ParamNext]_vars

\* dag.params is filled with declared Params and with plain values, merged
\* into, and read.
Next ==
    \/ \E v \in JsonValues \cup {NOTSET}, c \in ParamDecls :
          ParamConstruct(v, c.description, c.schema)
    \/ \E b \in BOOLEAN : ParamsDictConstruct("dag", <<>>, b)
    \/ \E k \in Keys, v \in JsonValues : SetItem("dag", k, Plain(v))
    \/ \E k \in Keys, p \in Objects : SetItem("dag", k, Ref(p))
    \/ \E other \in OtherParamsDicts : Update("dag", other)
    \/ \E k \in Keys : GetItem("dag", k)
    \/ Validate("dag")

Spec == Init /\ [][Next]_vars

\* The same, and dag.params is serialized and deserialized.
SerdeNext ==
    \/ Next
    \/ \E n \in Versions : RoundTrip("dag", n)

SpecSerde == Init /\ [][SerdeNext]_vars

\* Every call that can store a value, offered a value that is serializable
\* and one that is not.
SerialValues == {"1", NonSerializable}

SerialNext ==
    \/ \E v \in SerialValues \cup {NOTSET}, c \in ParamDecls :
          ParamConstruct(v, c.description, c.schema)
    \/ \E p \in Objects, v \in SerialValues \cup {NOTSET}, b \in BOOLEAN :
          ParamResolve(p, v, b)
    \/ \E p \in Objects, n \in Versions : ParamRoundTrip(p, n)
    \/ \E m \in SmallMappings(SerialValues), b \in BOOLEAN :
          ParamsDictConstruct("dag", m, b)
    \/ \E k \in Keys, v \in SerialValues : SetItem("dag", k, Plain(v))
    \/ \E k \in Keys, p \in Objects : SetItem("dag", k, Ref(p))
    \/ \E other \in OtherParamsDicts : Update("dag", other)
    \/ \E m \in SmallMappings(SerialValues) : UpdateMapping("dag", m)

SpecSerial == Init /\ [][SerialNext]_vars

\* A dag whose params are declared, and the DagParams made for it.
RefNext ==
    \/ \E v \in JsonValues \cup {NOTSET}, c \in ParamDecls :
          ParamConstruct(v, c.description, c.schema)
    \/ \E b \in BOOLEAN : ParamsDictConstruct("dag", <<>>, b)
    \/ \E k \in Keys, p \in Objects : SetItem("dag", k, Ref(p))
    \/ \E k \in Keys, v \in PlainValues \cup {NOTSET} : DagParamConstruct(k, v)

SpecRef == Init /\ [][RefNext]_vars

\* A DagParam resolved against the contexts.
ResolveNext ==
    \/ \E k \in Keys, v \in PlainValues \cup {NOTSET} : DagParamConstruct(k, v)
    \/ \E c \in Contexts : DagParamResolve(c)

SpecResolve == Init /\ [][ResolveNext]_vars

\* The run configurations process_params is given.
RunConfs == Confs(Mappings({"1", "x"}))

\* The params of a dag and of a task are declared, and process_params is
\* called for the runs of the task.
MergeNext ==
    \/ \E v \in {"1", "x"}, c \in ParamDecls : ParamConstruct(v, c.description, c.schema)
    \/ \E o \in Owners, k \in Keys, p \in Objects : SetItem(o, k, Ref(p))
    \/ \E c \in RunConfs, ov \in BOOLEAN, b \in BOOLEAN : ProcessParams(c, ov, b)

SpecMerge == Init /\ [][MergeNext]_vars

\* ------------------------------------------------------------------ claims
Dag == params["dag"]
Task == params["task"]
\* The Param object stored under a key of a ParamsDict.
ParamOf(self, h, k) == h[DictGet(self.d, k)]
\* A Param whose resolve() fails: no value, or a value its schema rejects.
Failing(param) == param.value = NOTSET \/ ~JsonSchemaValidate(param.value, param.schema)

\* C3: in a ParamsDict with suppress_exception false, setting an existing key
\* to a plain value its Param's schema rejects raises ParamValidationError
\* with the key and the validator's message in it, and leaves the ParamsDict
\* and every Param object as they were.
C3_SetItemRejected ==
    [][\A k \in Keys, v \in JsonValues :
         (/\ ~Dag.suppress_exception
          /\ DictHas(Dag.d, k)
          /\ ~JsonSchemaValidate(v, ParamOf(Dag, heap, k).schema)
          /\ SetItem("dag", k, Plain(v)))
         => /\ ret'.raised
            /\ ret'.exc.type = "ParamValidationError"
            /\ MsgContains(ret'.exc, k)
            /\ MsgContains(ret'.exc, MsgSchema)
            /\ params' = params
            /\ heap' = heap]_vars

\* C3 witness: such a call has just raised, on a key that holds a value.
C3_Witness ==
    /\ ret.op = "setitem" /\ ret.raised /\ MsgContains(ret.exc, MsgSchema)
    /\ ~Dag.suppress_exception
    /\ \E k \in Keys : /\ MsgContains(ret.exc, k) /\ DictHas(Dag.d, k)
                       /\ ParamOf(Dag, heap, k).value = "1"
                       /\ ParamOf(Dag, heap, k).description = "d"

\* The value the three tiers of DagParam.resolve give, as the claim orders them.
InRunConf(context, name) ==
    context.has_dag_run /\ ~context.conf.isNone /\ DictHas(context.conf.d, name)

\* C4: DagParam.resolve returns the run configuration's value for the name if
\* there is one, else its own default if set, else context["params"][name] if
\* present, else raises AirflowException.
C4_ResolvePrecedence ==
    [][\A c \in Contexts :
         DagParamResolve(c) =>
            IF InRunConf(c, dag_param.name)
            THEN ~ret'.raised /\ ret'.val = DictGet(c.conf.d, dag_param.name)
            ELSE IF dag_param.default # NOTSET
            THEN ~ret'.raised /\ ret'.val = dag_param.default
            ELSE IF DictHas(c.params, dag_param.name)
            THEN ~ret'.raised /\ ret'.val = DictGet(c.params, dag_param.name)
            ELSE ret'.raised /\ ret'.exc.type = "AirflowException"]_vars

\* C4 witness: a DagParam with a default resolved to another value, which the
\* run configuration gave.
C4_Witness ==
    /\ ret.op = "DagParam.resolve" /\ ~ret.raised
    /\ dag_param.default # NOTSET /\ ret.val # dag_param.default

\* C9: a resolve whose candidate is serializable and accepted by the schema
\* stores and returns the candidate; every other resolve leaves the Param as
\* it was, raising in strict mode and returning None in lenient mode; a
\* resolve without candidate returns the stored value whenever the schema
\* accepts it; and nothing but a successful resolve with a candidate changes
\* a Param.  So the stored value is the last successfully resolved one and
\* resolve() keeps returning it.
C9_LastResolved ==
    [][/\ \A p \in Objects, v \in PlainValues \cup {NOTSET}, b \in BOOLEAN :
            ParamResolve(p, v, b) =>
               /\ \A q \in Objects \ {p} : heap'[q] = heap[q]
               /\ heap'[p].schema = heap[p].schema
               /\ heap'[p].description = heap[p].description
               /\ IF v # NOTSET /\ v # NonSerializable /\ JsonSchemaValidate(v, heap[p].schema)
                  THEN ~ret'.raised /\ ret'.val = v /\ heap'[p].value = v
                  ELSE IF v = NOTSET /\ ~Failing(heap[p])
                  THEN ~ret'.raised /\ ret'.val = heap[p].value /\ heap'[p] = heap[p]
                  ELSE /\ heap'[p] = heap[p]
                       /\ IF b /\ v # NonSerializable
                          THEN ~ret'.raised /\ ret'.val = None
                          ELSE ret'.raised
       /\ \A p \in Objects :
            heap'[p] # heap[p] =>
               \E v \in JsonValues, b \in BOOLEAN :
                  /\ ParamResolve(p, v, b) /\ ~ret'.raised /\ heap'[p].value = v
                  /\ JsonSchemaValidate(v, heap[p].schema)]_vars

\* C9 witness: a resolve has just returned "1", the value an integer Param
\* stores, while another Param stores a different value.
C9_Witness ==
    /\ ret.op = "resolve" /\ ~ret.raised /\ ret.val = "1"
    /\ \E p \in Objects : /\ heap[p].value = "1" /\ heap[p].schema = "integer"
                          /\ \E q \in Objects : q # p /\ heap[q].value = "x"

\* The dict process_params merges last: the run configuration when it overrides.
Override(dagrun_conf, overrides) ==
    IF overrides /\ ~dagrun_conf.isNone THEN dagrun_conf.d ELSE <<>>
\* The schema a run configuration value for key k is checked against.
SchemaFor(k) ==
    IF DictHas(Task.d, k) THEN ParamOf(Task, heap, k).schema
    ELSE IF DictHas(Dag.d, k) THEN ParamOf(Dag, heap, k).schema
    ELSE "{}"
\* Every value of the sources satisfies the schema that applies to it.
InputsValid(dagrun_conf, overrides) ==
    /\ \A o \in Owners : \A k \in DictKeys(params[o].d) : ~Failing(ParamOf(params[o], heap, k))
    /\ \A k \in DictKeys(Override(dagrun_conf, overrides)) :
          JsonSchemaValidate(DictGet(Override(dagrun_conf, overrides), k), SchemaFor(k))

\* C1: in strict mode, on valid inputs, process_params returns a dict whose
\* keys are those of the sources that take part and whose value for a key is
\* the run configuration's if it overrides and has the key, else the task's
\* if it has the key, else the dag's; without override the result is that of
\* an empty run configuration.
C1_MergePrecedence ==
    [][\A c \in RunConfs, ov \in BOOLEAN :
         (InputsValid(c, ov) /\ ProcessParams(c, ov, FALSE)) =>
            LET rc == Override(c, ov)
                keys == DictKeys(Dag.d) \cup DictKeys(Task.d) \cup DictKeys(rc)
            IN /\ ~ret'.raised
               /\ DictKeys(ret'.map) = keys
               /\ Len(ret'.map) = Cardinality(keys)
               /\ \A k \in keys :
                     DictGet(ret'.map, k) =
                        IF DictHas(rc, k) THEN DictGet(rc, k)
                        ELSE IF DictHas(Task.d, k) THEN ParamOf(Task, heap, k).value
                        ELSE ParamOf(Dag, heap, k).value
               /\ ~ov => ret'.map = process_params(Dag, Task, heap,
                                                   [isNone |-> FALSE, d |-> <<>>],
                                                   TRUE, FALSE).val]_vars

\* C2: a call of process_params leaves every Param object of the dag and of
\* the task as it was, so that later calls return what they would have
\* returned first.
C2_MergePure ==
    [][(\E c \in RunConfs, ov \in BOOLEAN, b \in BOOLEAN : ProcessParams(c, ov, b))
          => heap' = heap]_vars

\* C5: when DagParam(dag, name, default) returns and default is not NOTSET,
\* dag.params holds name with the stored value default.
C5_DefaultRegistered ==
    (ret.op = "DagParam" /\ ~ret.raised /\ dag_param.default # NOTSET) =>
        /\ DictHas(Dag.d, dag_param.name)
        /\ ParamOf(Dag, heap, dag_param.name).value = dag_param.default

\* C6: no Param ever holds a value that is not JSON-serializable, and a call
\* that offers one (Param(default), resolve(value), params[key] = value)
\* raises the serialization error, not a schema error, and changes nothing.
C6_Rejected ==
    /\ ret'.raised
    /\ ret'.exc.type = "ParamValidationError"
    /\ MsgContains(ret'.exc, MsgNotJson)
    /\ ~MsgContains(ret'.exc, MsgSchema)
    /\ heap' = heap
    /\ params' = params

FirstFailing(self, h) ==
    CHOOSE i \in 1..Len(self.d) :
        /\ Failing(h[self.d[i].v])
        /\ \A j \in 1..(i - 1) : ~Failing(h[self.d[j].v])

\* C7: validate() in strict mode returns the stored value of every key, or,
\* when a Param has no value or violates its schema, raises an error naming
\* the first such key and returns nothing; in lenient mode it never raises and
\* returns every key, None for the failing ones and the stored value for the
\* others.
C7_ValidateAll ==
    ret.op = "validate" =>
        IF Dag.suppress_exception
        THEN /\ ~ret.raised
             /\ ret.map = [i \in 1..Len(Dag.d) |->
                              [k |-> Dag.d[i].k,
                               v |-> IF Failing(heap[Dag.d[i].v]) THEN None
                                     ELSE heap[Dag.d[i].v].value]]
        ELSE IF \E i \in 1..Len(Dag.d) : Failing(heap[Dag.d[i].v])
        THEN /\ ret.raised
             /\ ret.exc.type = "ParamValidationError"
             /\ ret.exc.msg[1] = MsgInvalidInput
             /\ ret.exc.msg[2] = Dag.d[FirstFailing(Dag, heap)].k
             /\ ret.map = <<>>
        ELSE /\ ~ret.raised
             /\ ret.map = [i \in 1..Len(Dag.d) |->
                              [k |-> Dag.d[i].k, v |-> heap[Dag.d[i].v].value]]

\* C7 witness: strict validate() raised for the first of two keys while the
\* second fails as well.
C7_Witness ==
    /\ ret.op = "validate" /\ ret.raised /\ ~Dag.suppress_exception
    /\ Len(Dag.d) = 2
    /\ Failing(heap[Dag.d[1].v]) /\ Failing(heap[Dag.d[2].v])
    /\ Dag.d[1].v # Dag.d[2].v

\* C8: ParamsDict.deserialize(c.serialize(), version), for a version that is
\* not newer than the class, gives a ParamsDict with the keys of c whose Params
\* have no schema, no description and the stored value c holds for the key.
C8_RoundTripValues ==
    [][\A n \in Versions :
         (n <= ParamsDict_version /\ RoundTrip("dag", n)) =>
            /\ ~ret'.raised
            /\ Len(ret'.entries) = Len(Dag.d)
            /\ \A i \in 1..Len(Dag.d) :
                  /\ ret'.entries[i].k = Dag.d[i].k
                  /\ ret'.entries[i].v.schema = "{}"
                  /\ ret'.entries[i].v.description = None
                  /\ ret'.entries[i].v.value = heap[Dag.d[i].v].value]_vars

\* C10: in a ParamsDict with suppress_exception false, params[key] and
\* validate() return for a key the stored value of its Param, which satisfies
\* the Param's schema; when a stored value is missing or violates the schema
\* the read raises.
C10_ReadsValidated ==
    [][/\ \A k \in Keys :
            (~Dag.suppress_exception /\ GetItem("dag", k)) =>
               IF Failing(ParamOf(Dag, heap, k))
               THEN ret'.raised
               ELSE /\ ~ret'.raised
                    /\ ret'.val = ParamOf(Dag, heap, k).value
                    /\ JsonSchemaValidate(ret'.val, ParamOf(Dag, heap, k).schema)
       /\ (~Dag.suppress_exception /\ Validate("dag")) =>
               IF \E k \in DictKeys(Dag.d) : Failing(ParamOf(Dag, heap, k))
               THEN ret'.raised
               ELSE /\ ~ret'.raised
                    /\ DictKeys(ret'.map) = DictKeys(Dag.d)
                    /\ \A k \in DictKeys(Dag.d) :
                          /\ DictGet(ret'.map, k) = ParamOf(Dag, heap, k).value
                          /\ JsonSchemaValidate(DictGet(ret'.map, k),
                                                ParamOf(Dag, heap, k).schema)]_vars

\* C10 witness: a read raised for a key whose Param was adopted with a value
\* its schema rejects.
C10_Witness ==
    /\ ret.op = "getitem" /\ ret.raised /\ MsgContains(ret.exc, MsgSchema)
    /\ ~Dag.suppress_exception
    /\ \E k \in DictKeys(Dag.d) : ParamOf(Dag, heap, k).value = "x"
                                   /\ ParamOf(Dag, heap, k).schema = "integer"
====
